---------------------------- MODULE Spec2Model ----------------------------
(***************************************************************************)
(* Model of src/app/tic_tac_toe.py: the Tkinter tic-tac-toe application.   *)
(*                                                                         *)
(* The object TicTacToeApp is the record `app` (its fields keep their      *)
(* names).  handle_click is followed statement by statement, cut where the *)
(* code can be observed from outside:                                      *)
(*   - lines 99-108: the two early returns and the write of the mark;      *)
(*   - lines 111-125: check_winner and the branch it selects;              *)
(*   - the return of messagebox.showwarning / messagebox.showinfo, which   *)
(*     block in a nested event loop until the dialog is dismissed.         *)
(* While a dialog is open the nested event loop may deliver a further      *)
(* activation; that is the only way the test of line 99 can be true,       *)
(* because game_over is set (113/118) and cleared (93) inside one call.    *)
(*                                                                         *)
(* The Russian string literals of the source are written in Latin          *)
(* transliteration (the module is ASCII).                                  *)
(***************************************************************************)
EXTENDS Naturals, Sequences, FiniteSets, TLC

VARIABLES
    app,      \* the TicTacToeApp instance: its fields (lines 40-46)
    dialogs,  \* stack of open modal message boxes, the last one on top
    pc,       \* "wait": an event loop is waiting; "placed": handle_click is after line 108
    index,    \* the argument of the handle_click call that is at "placed"
    result,   \* the local variable result of handle_click (line 111)
    last,     \* the statement group executed by the last step, and its cell
    script    \* observer: the accepted moves since the last reset, while they follow a scenario

vars == <<app, dialogs, pc, index, result, last, script>>

\* Bound: how many warning dialogs may be open at once (nested activations).
MaxWarnings == 1

\* The nine cells, range(9) of line 54 and [""] * 9 of line 41.
Cells == 0 .. 8

Marks == {"X", "O"}

\* Mutant of WIN_COMBINATIONS: the last triple mistyped.
WIN_COMBINATIONS_Typo ==
    << <<0, 1, 2>>, <<3, 4, 5>>, <<6, 7, 8>>,
       <<0, 3, 6>>, <<1, 4, 7>>, <<2, 5, 8>>,
       <<0, 4, 8>>, <<2, 4, 7>> >>

\* Lines 13-17, in the order of the source.
WIN_COMBINATIONS ==
    << <<0, 1, 2>>, <<3, 4, 5>>, <<6, 7, 8>>,
       <<0, 3, 6>>, <<1, 4, 7>>, <<2, 5, 8>>,
       <<0, 4, 8>>, <<2, 4, 6>> >>

\* f"Hod igroka {self.current_player}" of lines 46, 94 and 125.
StatusLine(player) == "Hod igroka " \o player

\* f"Pobedil igrok {result}!" of line 114.
WinMessage(winner) == "Pobedil igrok " \o winner \o "!"

\* "Nichya!" of line 119.
TieMessage == "Nichya!"

\* messagebox.showwarning(...) of line 103.
WarningDialog ==
    [kind |-> "warning", title |-> "Nedopustimyj hod",
     message |-> "Eta kletka uzhe zanyata."]

\* messagebox.showinfo("Igra okonchena", message) of lines 114 and 119.
InfoDialog(message) ==
    [kind |-> "info", title |-> "Igra okonchena", message |-> message]

\* tk.Button(text="") of lines 56-63; the state option defaults to "normal".
NewButton == [text |-> "", state |-> "normal"]

\* TicTacToeApp.__init__, lines 39-50.
NewApp ==
    [current_player |-> "X",
     game_board     |-> [i \in Cells |-> ""],
     buttons        |-> [i \in Cells |-> NewButton],
     game_over      |-> FALSE,
     status_text    |-> StatusLine("X")]

\* The scan of lines 80-83 from the k-th combination on, then line 85.
RECURSIVE ScanFrom(_, _)
ScanFrom(board, k) ==
    IF k > Len(WIN_COMBINATIONS)
    THEN IF \A i \in Cells : board[i] # "" THEN "Tie" ELSE "None"
    ELSE LET a == WIN_COMBINATIONS[k][1]
             b == WIN_COMBINATIONS[k][2]
             c == WIN_COMBINATIONS[k][3]
         IN  IF board[a] # "" /\ board[a] = board[b] /\ board[b] = board[c]
             THEN board[a]
             ELSE ScanFrom(board, k + 1)

\* Mutant of check_winner: the scan starts at the second combination.
check_winner_SkipsFirst(self) == ScanFrom(self.game_board, 2)

\* Mutant of check_winner: the full board is tested before the lines.
check_winner_TieFirst(self) ==
    IF \A i \in Cells : self.game_board[i] # ""
    THEN "Tie"
    ELSE ScanFrom(self.game_board, 1)

\* TicTacToeApp.check_winner, lines 73-85 ("None" stands for None).
check_winner(self) == ScanFrom(self.game_board, 1)

\* Mutant of reset_game: line 93 is missing, game_over stays set.
reset_game_KeepsFlag(self) ==
    LET s1 == [self EXCEPT !.game_board = [i \in Cells |-> ""]]
        s2 == [s1 EXCEPT !.current_player = "X"]
        s3 == [s2 EXCEPT !.buttons = [i \in Cells |->
                            [s2.buttons[i] EXCEPT !.text = "", !.state = "normal"]]]
    IN  [s3 EXCEPT !.status_text = StatusLine(s3.current_player)]

\* Mutant of reset_game: line 90 is missing, the player to move is kept.
reset_game_KeepsPlayer(self) ==
    LET s1 == [self EXCEPT !.game_board = [i \in Cells |-> ""]]
        s3 == [s1 EXCEPT !.buttons = [i \in Cells |->
                            [s1.buttons[i] EXCEPT !.text = "", !.state = "normal"]]]
        s4 == [s3 EXCEPT !.game_over = FALSE]
    IN  [s4 EXCEPT !.status_text = StatusLine(s4.current_player)]

\* Mutant of reset_game: the status line is set before line 90 sets the player.
reset_game_StatusFirst(self) ==
    LET s0 == [self EXCEPT !.status_text = StatusLine(self.current_player)]
        s1 == [s0 EXCEPT !.game_board = [i \in Cells |-> ""]]
        s2 == [s1 EXCEPT !.current_player = "X"]
        s3 == [s2 EXCEPT !.buttons = [i \in Cells |->
                            [s2.buttons[i] EXCEPT !.text = "", !.state = "normal"]]]
    IN  [s3 EXCEPT !.game_over = FALSE]

\* TicTacToeApp.reset_game, lines 87-94, statement by statement.
reset_game(self) ==
    LET s1 == [self EXCEPT !.game_board = [i \in Cells |-> ""]]
        s2 == [s1 EXCEPT !.current_player = "X"]
        s3 == [s2 EXCEPT !.buttons = [i \in Cells |->
                            [s2.buttons[i] EXCEPT !.text = "", !.state = "normal"]]]
        s4 == [s3 EXCEPT !.game_over = FALSE]
    IN  [s4 EXCEPT !.status_text = StatusLine(s4.current_player)]

\* Mutant of PlaceMark: line 108 is missing, the button keeps its label.
PlaceMark_NoLabel(self, i) ==
    [self EXCEPT !.game_board[i] = self.current_player]

\* Mutant of PlaceMark: the mark goes to the next cell.
PlaceMark_NextCell(self, i) ==
    LET j  == (i + 1) % Cardinality(Cells)
        s1 == [self EXCEPT !.game_board[j] = self.current_player]
    IN  [s1 EXCEPT !.buttons[j].text = s1.current_player]

\* Mutant of PlaceMark: the mark written is always "X".
PlaceMark_AlwaysX(self, i) ==
    LET s1 == [self EXCEPT !.game_board[i] = "X"]
    IN  [s1 EXCEPT !.buttons[i].text = "X"]

\* handle_click, lines 107-108: the move of the current player.
PlaceMark(self, i) ==
    LET s1 == [self EXCEPT !.game_board[i] = self.current_player]
    IN  [s1 EXCEPT !.buttons[i].text = s1.current_player]

\* Mutant of SetGameOver: the assignment is missing.
SetGameOver_Forgotten(self) == self

\* handle_click, lines 113 and 118.
SetGameOver(self) == [self EXCEPT !.game_over = TRUE]

\* Mutant of SwitchPlayer: both branches of line 124 give "O".
SwitchPlayer_OnlyToO(self) ==
    LET s1 == [self EXCEPT !.current_player = "O"]
    IN  [s1 EXCEPT !.status_text = StatusLine(s1.current_player)]

\* Mutant of SwitchPlayer: line 124 is missing, only the status line is set.
SwitchPlayer_StatusOnly(self) ==
    [self EXCEPT !.status_text = StatusLine(self.current_player)]

\* handle_click, lines 124-125.
SwitchPlayer(self) ==
    LET s1 == [self EXCEPT !.current_player =
                              IF self.current_player = "X" THEN "O" ELSE "X"]
    IN  [s1 EXCEPT !.status_text = StatusLine(s1.current_player)]

\* Number of open warning dialogs.
OpenWarnings == Cardinality({k \in 1 .. Len(dialogs) : dialogs[k].kind = "warning"})

-----------------------------------------------------------------------------
(* The scenarios of the specification, as sequences of activated cells.    *)

ScenarioRow   == <<0, 3, 1, 4, 2>>
ScenarioOrder == <<0, 1, 2, 3, 4, 5, 6, 7, 8>>
ScenarioTie   == <<0, 1, 2, 4, 3, 5, 7, 6, 8>>
Scenarios     == {ScenarioRow, ScenarioOrder, ScenarioTie}

IsPrefix(s, t) == Len(s) <= Len(t) /\ \A k \in 1 .. Len(s) : s[k] = t[k]

OnScript(moves) == [on |-> TRUE, moves |-> moves]
OffScript       == [on |-> FALSE, moves |-> <<>>]

\* The observer after the accepted move i.
Follow(sc, i) ==
    IF sc.on /\ \E t \in Scenarios : IsPrefix(Append(sc.moves, i), t)
    THEN OnScript(Append(sc.moves, i))
    ELSE OffScript

-----------------------------------------------------------------------------
Step(op, i) == [op |-> op, index |-> i]

Init ==
    /\ app = NewApp
    /\ dialogs = <<>>
    /\ pc = "wait"
    /\ index = 0
    /\ result = "None"
    /\ last = Step("init", 0)
    /\ script = OnScript(<<>>)

\* Mutant of ClickIgnored: lines 99-100 are missing, the empty cell is played.
ClickIgnored_NoGuard(i) ==
    /\ pc = "wait"
    /\ app.game_over
    /\ app.game_board[i] = ""
    /\ app' = PlaceMark(app, i)
    /\ pc' = "placed"
    /\ index' = i
    /\ last' = Step("placed", i)
    /\ script' = Follow(script, i)
    /\ UNCHANGED <<dialogs, result>>

\* handle_click(i), lines 99-100: the party is over, the click is ignored.
ClickIgnored(i) ==
    /\ pc = "wait"
    /\ app.game_over
    /\ last' = Step("ignored", i)
    /\ UNCHANGED <<app, dialogs, pc, index, result, script>>

\* Mutant of ClickOccupied: the return of line 104 is missing, the mark is
\* written over the occupied cell.
ClickOccupied_NoReturn(i) ==
    /\ pc = "wait"
    /\ ~app.game_over
    /\ app.game_board[i] # ""
    /\ OpenWarnings < MaxWarnings
    /\ dialogs' = Append(dialogs, WarningDialog)
    /\ app' = PlaceMark(app, i)
    /\ last' = Step("rejected", i)
    /\ UNCHANGED <<pc, index, result, script>>

\* handle_click(i), lines 102-103: the cell is taken; showwarning opens and blocks.
ClickOccupied(i) ==
    /\ pc = "wait"
    /\ ~app.game_over
    /\ app.game_board[i] # ""
    /\ OpenWarnings < MaxWarnings
    /\ dialogs' = Append(dialogs, WarningDialog)
    /\ last' = Step("rejected", i)
    /\ UNCHANGED <<app, pc, index, result, script>>

\* handle_click(i), lines 106-108: the mark is written and shown.
ClickEmpty(i) ==
    /\ pc = "wait"
    /\ ~app.game_over
    /\ app.game_board[i] = ""
    /\ app' = PlaceMark(app, i)
    /\ pc' = "placed"
    /\ index' = i
    /\ last' = Step("placed", i)
    /\ script' = Follow(script, i)
    /\ UNCHANGED <<dialogs, result>>

\* handle_click, lines 111-116: a winner; game_over is set and showinfo opens.
OutcomeWin ==
    /\ pc = "placed"
    /\ check_winner(app) \in Marks
    /\ result' = check_winner(app)
    /\ app' = SetGameOver(app)
    /\ dialogs' = Append(dialogs, InfoDialog(WinMessage(check_winner(app))))
    /\ pc' = "wait"
    /\ last' = Step("win", index)
    /\ UNCHANGED <<index, script>>

\* handle_click, lines 111, 117-119: a tie; game_over is set and showinfo opens.
OutcomeTie ==
    /\ pc = "placed"
    /\ check_winner(app) = "Tie"
    /\ result' = check_winner(app)
    /\ app' = SetGameOver(app)
    /\ dialogs' = Append(dialogs, InfoDialog(TieMessage))
    /\ pc' = "wait"
    /\ last' = Step("tie", index)
    /\ UNCHANGED <<index, script>>

\* handle_click, lines 111, 123-125: the game goes on, the turn passes.
OutcomeContinue ==
    /\ pc = "placed"
    /\ check_winner(app) \notin Marks \cup {"Tie"}
    /\ result' = check_winner(app)
    /\ app' = SwitchPlayer(app)
    /\ pc' = "wait"
    /\ last' = Step("continue", index)
    /\ UNCHANGED <<dialogs, index, script>>

\* The warning on top is dismissed: showwarning returns, line 104 returns.
DismissWarning ==
    /\ pc = "wait"
    /\ dialogs # <<>>
    /\ dialogs[Len(dialogs)].kind = "warning"
    /\ dialogs' = SubSeq(dialogs, 1, Len(dialogs) - 1)
    /\ last' = Step("warned", last.index)
    /\ UNCHANGED <<app, pc, index, result, script>>

\* The result dialog is dismissed: showinfo returns, lines 115-116 / 120-121.
DismissInfo ==
    /\ pc = "wait"
    /\ dialogs # <<>>
    /\ dialogs[Len(dialogs)].kind = "info"
    /\ dialogs' = SubSeq(dialogs, 1, Len(dialogs) - 1)
    /\ app' = reset_game(app)
    /\ last' = Step("reset", last.index)
    /\ script' = OnScript(<<>>)
    /\ UNCHANGED <<pc, index, result>>

\* TicTacToeApp.handle_click(i), lines 96-108, as delivered by button i (line 62).
handle_click(i) == ClickIgnored(i) \/ ClickOccupied(i) \/ ClickEmpty(i)

Next ==
    \/ \E i \in Cells : handle_click(i)
    \/ OutcomeWin
    \/ OutcomeTie
    \/ OutcomeContinue
    \/ DismissWarning
    \/ DismissInfo

Spec == Init /\ [][Next]_vars


-----------------------------------------------------------------------------
(* check_winner as a function of an arbitrary board: every board of        *)
(* {"", "X", "O"}^9 is an input, check_winner is applied once to it.        *)

AnyBoard == [Cells -> {""} \cup Marks]

InitCheck ==
    /\ app \in {[NewApp EXCEPT !.game_board = b] : b \in AnyBoard}
    /\ dialogs = <<>>
    /\ pc = "call"
    /\ index = 0
    /\ result = "None"
    /\ last = Step("init", 0)
    /\ script = OffScript

\* result = self.check_winner(), line 111, on the board drawn by InitCheck.
CallCheckWinner ==
    /\ pc = "call"
    /\ result' = check_winner(app)
    /\ pc' = "returned"
    /\ last' = Step("check_winner", 0)
    /\ UNCHANGED <<app, dialogs, index, script>>

SpecCheck == InitCheck /\ [][CallCheckWinner]_vars

-----------------------------------------------------------------------------
(* Vocabulary of the properties.  The lines of the grid are defined from   *)
(* the geometry (row = index div 3, column = index mod 3), independently   *)
(* of the table WIN_COMBINATIONS that check_winner scans.                  *)

Row(r)   == {i \in Cells : i \div 3 = r}
Col(c)   == {i \in Cells : i % 3 = c}
Diag     == {i \in Cells : i \div 3 = i % 3}
AntiDiag == {i \in Cells : (i \div 3) + (i % 3) = 2}
Lines    == {Row(r) : r \in 0 .. 2} \cup {Col(c) : c \in 0 .. 2} \cup {Diag, AntiDiag}

\* The line l is fully populated with the mark m.
LineOf(board, l, m) == \A i \in l : board[i] = m
HasLineOf(board, m) == \E l \in Lines : LineOf(board, l, m)
HasLine(board)      == \E m \in Marks : HasLineOf(board, m)
Full(board)         == \A i \in Cells : board[i] # ""
AllEmpty(board)     == \A i \in Cells : board[i] = ""
Count(board, m)     == Cardinality({i \in Cells : board[i] = m})

Top        == dialogs[Len(dialogs)]
InfoOpen   == dialogs # <<>> /\ Top.kind = "info"
WarnOpen   == dialogs # <<>> /\ Top.kind = "warning"
Popped     == SubSeq(dialogs, 1, Len(dialogs) - 1)
\* The step opens exactly one dialog, of the given kind, and closes none.
Opens(kind) ==
    /\ Len(dialogs') = Len(dialogs) + 1
    /\ SubSeq(dialogs', 1, Len(dialogs)) = dialogs
    /\ dialogs'[Len(dialogs')].kind = kind
\* The board, the player to move and the flag of the controller.
Core(a) == <<a.game_board, a.current_player, a.game_over>>
IsReset(a) == AllEmpty(a.game_board) /\ ~a.game_over /\ a.current_player = "X"

\* The board that holds the marks ms at the cells 0 .. Len(ms)-1 and nothing else.
BoardOf(ms) == [i \in Cells |-> IF i < Len(ms) THEN ms[i + 1] ELSE ""]
\* The board after the moves cs, played alternately from X.
Played(cs) ==
    [i \in Cells |->
        IF \E k \in 1 .. Len(cs) : cs[k] = i
        THEN IF (CHOOSE k \in 1 .. Len(cs) : cs[k] = i) % 2 = 1 THEN "X" ELSE "O"
        ELSE ""]

-----------------------------------------------------------------------------
\* C1: a handle_click call whose move produces a win or a tie opens exactly
\* one informational dialog (nothing else is shown while it is open), and
\* when the call returns (the dialog is dismissed) the board is fully empty,
\* game_over is false and current_player is "X", whoever made the move.
C1_TerminalMoveNotifiesOnceThenResets ==
    [][ /\ (pc = "placed" /\ (HasLine(app.game_board) \/ Full(app.game_board)))
            => Opens("info")
        /\ InfoOpen
            => \/ dialogs' = dialogs
               \/ dialogs' = Popped /\ IsReset(app') /\ pc' = "wait"
      ]_vars

\* C1 witness: O made the winning move and the call has returned.
C1_Witness ==
    /\ last.op = "reset"
    /\ result = "O"
    /\ IsReset(app)
    /\ dialogs = <<>>

\* C2: with game_over false, handle_click on an occupied cell leaves the
\* board, current_player and game_over unchanged and opens exactly one
\* warning dialog and no informational one; activating cell 0 twice in a row
\* from the reset state leaves "X" in cell 0 and O to move.
C2_OccupiedCellRejected ==
    [][ /\ \A i \in Cells :
              (handle_click(i) /\ ~app.game_over /\ app.game_board[i] # "")
                  => /\ Core(app') = Core(app)
                     /\ Opens("warning")
                     /\ pc' = "wait"
        /\ (script = OnScript(<<0>>) /\ last = Step("rejected", 0))
              => /\ app.game_board = Played(<<0>>)
                 /\ app.current_player = "O"
                 /\ ~app.game_over
      ]_vars

\* C2 witness: cell 0 was activated twice in a row from the reset state.
C2_Witness ==
    /\ script = OnScript(<<0>>)
    /\ last = Step("rejected", 0)
    /\ dialogs = <<WarningDialog>>
    /\ app.game_board[0] = "X"
    /\ app.current_player = "O"

\* C3: on every board of {"", "X", "O"}^9 check_winner returns a mark iff
\* some line is fully populated with one mark (and then the mark of such a
\* line), "Tie" iff the board has no empty cell and no such line, and None
\* otherwise.
C3_CheckWinnerOutcome ==
    pc = "returned" =>
        /\ result \in Marks \cup {"Tie", "None"}
        /\ result \in Marks <=> HasLine(app.game_board)
        /\ result \in Marks => HasLineOf(app.game_board, result)
        /\ result = "Tie" <=> (Full(app.game_board) /\ ~HasLine(app.game_board))
        /\ result = "None" <=> (~Full(app.game_board) /\ ~HasLine(app.game_board))

\* C3 witness: a full board with a line of O (the first one scanned) and a
\* line of X; check_winner has returned "O".
C3_Witness ==
    /\ pc = "returned"
    /\ result = "O"
    /\ Full(app.game_board)
    /\ HasLineOf(app.game_board, "X")
    /\ HasLineOf(app.game_board, "O")

\* C4: every accepted non-terminal move flips current_player; the first mark
\* placed after the start or after a reset is "X"; within a game the marks
\* placed alternate (X when the counts are equal, O when X is one ahead);
\* a reset leaves "X" to move.
C4_TurnsAlternate ==
    /\ app.current_player = "X"
    /\ [][ /\ (pc = "placed" /\ ~HasLine(app.game_board) /\ ~Full(app.game_board))
               => /\ app'.current_player # app.current_player
                  /\ app'.current_player \in Marks
           /\ \A i \in Cells :
                 (app.game_board[i] = "" /\ app'.game_board[i] # "")
                     => /\ AllEmpty(app.game_board) => app'.game_board[i] = "X"
                        /\ app'.game_board[i] =
                              IF Count(app.game_board, "X") = Count(app.game_board, "O")
                              THEN "X" ELSE "O"
                        /\ Count(app.game_board, "X") - Count(app.game_board, "O") \in {0, 1}
           /\ (InfoOpen /\ dialogs' # dialogs) => app'.current_player = "X"
         ]_vars

\* C4 witness: O won the previous game and X has placed the first mark of the next.
C4_Witness ==
    /\ result = "O"
    /\ pc = "placed"
    /\ Count(app.game_board, "X") = 1
    /\ Count(app.game_board, "O") = 0

\* C5: a cell that holds a mark keeps it in every step other than a full
\* reset, and a full reset happens only after a win or a tie.
C5_MarksPersist ==
    [][ \A i \in Cells :
           (app.game_board[i] # "" /\ app'.game_board[i] # app.game_board[i])
               => /\ AllEmpty(app'.game_board)
                  /\ InfoOpen /\ dialogs' = Popped
                  /\ app.game_over
                  /\ HasLine(app.game_board) \/ Full(app.game_board)
      ]_vars

\* C5 witness: an occupied cell was activated and a later move was accepted.
C5_Witness ==
    /\ WarnOpen
    /\ pc = "placed"
    /\ Count(app.game_board, "X") + Count(app.game_board, "O") >= 2

\* C6: handle_click while game_over is true, on an empty or an occupied
\* cell, leaves the board, current_player, game_over and the display
\* unchanged and opens no dialog; while game_over is true the board changes
\* only by the reset that clears the flag and the board.
C6_ClickIgnoredWhenGameOver ==
    [][ /\ \A i \in Cells :
              (handle_click(i) /\ app.game_over)
                  => app' = app /\ dialogs' = dialogs /\ pc' = pc
        /\ (app.game_over /\ app'.game_board # app.game_board)
              => AllEmpty(app'.game_board) /\ ~app'.game_over
      ]_vars

\* C6 witness: an empty cell was activated while the result dialog was open.
C6_Witness ==
    /\ last.op = "ignored"
    /\ app.game_over
    /\ InfoOpen
    /\ app.game_board[last.index] = ""

-----------------------------------------------------------------------------
\* The marks the specification gives for the cells 0 .. 8 of its tie scenario.
ClaimedTieMarks == <<"X", "O", "X", "O", "X", "O", "O", "X", "O">>

\* C7, as stated: activating 0, 1, ..., 8 in that order from the reset state
\* fills the cells with X,O,X,O,X,O,O,X,O, there is no three-in-a-row at any
\* point, and the ninth move yields the tie.
C7_AsStated ==
    (script.on /\ script.moves # <<>> /\ IsPrefix(script.moves, ScenarioOrder))
        => /\ app.game_board = BoardOf(SubSeq(ClaimedTieMarks, 1, Len(script.moves)))
           /\ ~HasLine(app.game_board)
           /\ (Len(script.moves) = Len(ScenarioOrder) /\ pc = "wait")
                 => InfoOpen /\ Top = InfoDialog(TieMessage)

\* C7, amended: activating 0, 1, ..., 6 in that order from the reset state
\* places X,O,X,O,X,O,X; there is no three-in-a-row before the seventh move,
\* which completes (2,4,6) and yields the win of X: the X-wins dialog, then
\* the reset (so the cells 7 and 8 are never reached in that game).  A tie
\* needs five X and four O: activating 0,1,2,4,3,5,7,6,8 places
\* X,O,X,X,O,O,O,X,X at the cells 0 .. 8 with no three-in-a-row at any
\* point, and the ninth move yields the tie: the tie dialog, then the reset.
C7_OrderedFillWinsTieNeedsFiveX ==
    [][ /\ (script.on /\ script.moves # <<>> /\ IsPrefix(script.moves, ScenarioOrder))
            => /\ Len(script.moves) <= 7
               /\ app.game_board = Played(script.moves)
               /\ Len(script.moves) < 7 => ~HasLine(app.game_board)
               /\ Len(script.moves) = 7
                     => /\ LineOf(app.game_board, AntiDiag, "X")
                        /\ pc = "wait"
                              => /\ InfoOpen /\ Top = InfoDialog(WinMessage("X"))
                                 /\ app.game_over
                                 /\ dialogs' # dialogs => app' = NewApp
        /\ (script.on /\ script.moves # <<>> /\ IsPrefix(script.moves, ScenarioTie))
            => /\ app.game_board = Played(script.moves)
               /\ ~HasLine(app.game_board)
               /\ Len(script.moves) = Len(ScenarioTie)
                     => /\ app.game_board =
                              BoardOf(<<"X", "O", "X", "X", "O", "O", "O", "X", "X">>)
                        /\ pc = "wait"
                              => /\ InfoOpen /\ Top = InfoDialog(TieMessage)
                                 /\ app.game_over
                                 /\ dialogs' # dialogs => app' = NewApp
      ]_vars

\* C7 witness: the nine moves of the tie scenario are played and the tie
\* dialog is open.
C7_Witness ==
    /\ script = OnScript(ScenarioTie)
    /\ pc = "wait"
    /\ dialogs = <<InfoDialog(TieMessage)>>
    /\ Full(app.game_board)

\* C8: when an accepted move completes a line, the dialog opened names the
\* mark of the player who made the move as the winner, also when the move
\* fills the last empty cell; the tie dialog is opened only by a move that
\* fills the board without completing a line; the moves 0,3,1,4,2 from the
\* reset state give the win of X on the fifth move, the X-wins dialog, then
\* the full reset.
C8_WinnerIsTheMover ==
    [][ /\ (pc = "placed" /\ HasLine(app.game_board))
            => /\ dialogs' = Append(dialogs, InfoDialog(WinMessage(app.game_board[index])))
               /\ app.game_board[index] = app.current_player
               /\ HasLineOf(app.game_board, app.game_board[index])
        /\ (Len(dialogs') > Len(dialogs) /\ dialogs'[Len(dialogs')].message = TieMessage)
            => /\ pc = "placed"
               /\ Full(app.game_board)
               /\ ~HasLine(app.game_board)
        /\ (script.on /\ script.moves # <<>> /\ IsPrefix(script.moves, ScenarioRow))
            => /\ app.game_board = Played(script.moves)
               /\ Len(script.moves) < Len(ScenarioRow) => ~HasLine(app.game_board)
               /\ Len(script.moves) = Len(ScenarioRow)
                     => /\ LineOf(app.game_board, Row(0), "X")
                        /\ pc = "placed" => check_winner(app) = "X"
                        /\ pc = "wait"
                              => /\ InfoOpen /\ Top = InfoDialog(WinMessage("X"))
                                 /\ dialogs' # dialogs => app' = NewApp
      ]_vars

\* C8 witness: the move that filled the last empty cell completed a line of
\* X, and the X-wins dialog is open.
C8_Witness ==
    /\ pc = "wait"
    /\ Full(app.game_board)
    /\ InfoOpen
    /\ Top = InfoDialog(WinMessage("X"))
    /\ last.op = "win"

\* C9: reset_game is idempotent: in every reachable state applying it twice
\* gives the same board, player, flag, button labels and states and status
\* text as applying it once, and applied to the initial (reset) state it
\* changes nothing.
C9_ResetIdempotent ==
    /\ reset_game(reset_game(app)) = reset_game(app)
    /\ reset_game(app) = NewApp
    /\ reset_game(NewApp) = NewApp
    /\ last.op = "reset" => app = NewApp /\ reset_game(app) = app

\* C9 witness: O is to move on a board with marks; reset_game changes the
\* board, the player, the labels and the status text.
C9_Witness ==
    /\ app.current_player = "O"
    /\ ~AllEmpty(app.game_board)
    /\ app.status_text = StatusLine("O")
    /\ reset_game(app) # app

\* C10: an accepted handle_click(i) (game_over false, cell i empty) writes
\* exactly the mark of current_player into cell i and leaves the other eight
\* cells unchanged, as observed right after the write and before the outcome
\* is evaluated.
C10_AcceptedMoveWritesOneCell ==
    [][ \A i \in Cells :
           (handle_click(i) /\ ~app.game_over /\ app.game_board[i] = "")
               => /\ app'.game_board[i] = app.current_player
                  /\ app.current_player \in Marks
                  /\ \A j \in Cells \ {i} : app'.game_board[j] = app.game_board[j]
                  /\ pc' = "placed" /\ index' = i
                  /\ app'.current_player = app.current_player
                  /\ ~app'.game_over
                  /\ dialogs' = dialogs
      ]_vars

\* C10 witness: O has just written its mark, the outcome is not yet evaluated.
C10_Witness ==
    /\ pc = "placed"
    /\ app.current_player = "O"
    /\ app.game_board[index] = "O"
    /\ last = Step("placed", index)

-----------------------------------------------------------------------------
\* The lines of the grid that are fully populated with one mark.
FullLines(board) == {l \in Lines : \E m \in Marks : LineOf(board, l, m)}

\* A win has just been detected or is about to be: the mark is written and
\* the board is not yet reset.
AtDetection == (pc = "placed" \/ InfoOpen) /\ HasLine(app.game_board)

\* C11, as stated: when a win is detected (after the winning move, before
\* the reset) at most one line is fully populated with one mark.
C11_AsStated ==
    AtDetection => Cardinality(FullLines(app.game_board)) <= 1

\* C11, amended: when a win is detected at most two lines are fully
\* populated with one mark (a single move can complete two lines at once);
\* each of them passes through the cell just played and carries the mark of
\* the player who made the move.
C11_AtMostTwoLinesThroughTheMove ==
    AtDetection =>
        /\ Cardinality(FullLines(app.game_board)) \in {1, 2}
        /\ \A l \in FullLines(app.game_board) :
              /\ index \in l
              /\ LineOf(app.game_board, l, app.current_player)

\* C11 witness: the move just written completed two lines at once.
C11_Witness ==
    /\ pc = "placed"
    /\ Cardinality(FullLines(app.game_board)) = 2

-----------------------------------------------------------------------------
\* check_winner with its loop (lines 80-83) running over the triples in the
\* given order, from the k-th on, then line 85.
RECURSIVE ScanIn(_, _, _)
ScanIn(board, order, k) ==
    IF k > Len(order)
    THEN IF \A i \in Cells : board[i] # "" THEN "Tie" ELSE "None"
    ELSE LET a == order[k][1]
             b == order[k][2]
             c == order[k][3]
         IN  IF board[a] # "" /\ board[a] = board[b] /\ board[b] = board[c]
             THEN board[a]
             ELSE ScanIn(board, order, k + 1)

\* WIN_COMBINATIONS with its k-th triple moved to the front.
MoveToFront(k) ==
    <<WIN_COMBINATIONS[k]>>
        \o SubSeq(WIN_COMBINATIONS, 1, k - 1)
        \o SubSeq(WIN_COMBINATIONS, k + 1, Len(WIN_COMBINATIONS))

\* WIN_COMBINATIONS backwards.
Reversed ==
    [k \in 1 .. Len(WIN_COMBINATIONS) |->
        WIN_COMBINATIONS[Len(WIN_COMBINATIONS) + 1 - k]]

\* A scan returns the mark of the first fully populated triple of its order,
\* so the outcomes of all the permutations are those of the orders that put
\* one given triple first.
Orders == {MoveToFront(k) : k \in 1 .. Len(WIN_COMBINATIONS)} \cup {Reversed}

\* C12: on every board reachable by legal play the outcome of check_winner
\* does not depend on the order of the scan: no board holds a full line of X
\* and a full line of O at once, and the scan in any order returns what the
\* scan in the order of the source returns.
C12_ScanOrderIrrelevant ==
    /\ ~(HasLineOf(app.game_board, "X") /\ HasLineOf(app.game_board, "O"))
    /\ \A o \in Orders :
          ScanIn(app.game_board, o, 1) = ScanIn(app.game_board, WIN_COMBINATIONS, 1)
    /\ check_winner(app) = ScanIn(app.game_board, WIN_COMBINATIONS, 1)

\* C12 witness: two lines are full after the last move, the one met first
\* depends on the order, and the result is the win of X either way.
C12_Witness ==
    /\ InfoOpen
    /\ result = "X"
    /\ Cardinality(FullLines(app.game_board)) = 2
    /\ \A o \in Orders : ScanIn(app.game_board, o, 1) = "X"

-----------------------------------------------------------------------------
Terminal(board) == HasLine(board) \/ Full(board)

\* C13: on a terminal move the mark is written first (game_over still
\* false), then game_over is set and the result dialog opens with the board
\* and current_player untouched; while the dialog is open game_over is true,
\* the board and the buttons still hold the finished position and
\* current_player is still the player who moved; the board is cleared only
\* by the step that dismisses the dialog.
C13_TerminalMoveOrder ==
    [][ /\ pc = "placed"
            => /\ ~app.game_over
               /\ app.game_board[index] = app.current_player
        /\ (pc = "placed" /\ Terminal(app.game_board))
            => /\ app'.game_over
               /\ app'.game_board = app.game_board
               /\ app'.current_player = app.current_player
               /\ Opens("info")
        /\ InfoOpen
            => /\ app.game_over
               /\ Terminal(app.game_board)
               /\ ~AllEmpty(app.game_board)
               /\ app.game_board[index] = app.current_player
               /\ \A i \in Cells : app.buttons[i].text = app.game_board[i]
        /\ (InfoOpen /\ dialogs' = Popped) => IsReset(app')
        /\ (~AllEmpty(app.game_board) /\ AllEmpty(app'.game_board))
            => InfoOpen /\ dialogs' = Popped
      ]_vars

\* C13 witness: O has won, the dialog naming O is open, the board is not
\* cleared and O is still the current player.
C13_Witness ==
    /\ InfoOpen
    /\ Top = InfoDialog(WinMessage("O"))
    /\ app.game_over
    /\ app.current_player = "O"
    /\ HasLineOf(app.game_board, "O")

-----------------------------------------------------------------------------
\* No handle_click call is in progress: the main event loop is waiting and
\* no call is blocked in a dialog.
Idle == pc = "wait" /\ dialogs = <<>>

\* C14: game_over is false in every idle state; it is true only while the
\* result dialog of a terminal move is open; it is set only by a terminal
\* move and cleared only by the reset that follows the dismissal of that
\* dialog, inside the same call.
C14_GameOverOnlyTransient ==
    [][ /\ Idle => ~app.game_over
        /\ app.game_over => InfoOpen /\ pc = "wait" /\ Terminal(app.game_board)
        /\ InfoOpen => app.game_over
        /\ (~app.game_over /\ app'.game_over)
            => pc = "placed" /\ Terminal(app.game_board) /\ Opens("info")
        /\ (app.game_over /\ ~app'.game_over)
            => dialogs' = Popped /\ app' = NewApp
        /\ (InfoOpen /\ dialogs' # dialogs) => ~app'.game_over
      ]_vars

\* C14 witness: a tie was notified, the dialog dismissed and the call has
\* returned: the controller is idle with game_over false.
C14_Witness ==
    /\ Idle
    /\ last.op = "reset"
    /\ result = "Tie"
    /\ ~app.game_over

-----------------------------------------------------------------------------
\* X has as many marks as O and is to move, or has one more and O is to move.
TurnMatchesCounts(a) ==
    \/ /\ Count(a.game_board, "X") = Count(a.game_board, "O")
       /\ a.current_player = "X"
    \/ /\ Count(a.game_board, "X") = Count(a.game_board, "O") + 1
       /\ a.current_player = "O"

\* C15: in every idle state the number of X marks minus the number of O
\* marks is 0 or 1, and current_player is "X" exactly when the counts are
\* equal and "O" exactly when X has one more; the same holds while a warning
\* dialog is open, so a rejected activation and a reset preserve it.
C15_TurnMatchesMarkCounts ==
    /\ Idle => TurnMatchesCounts(app)
    /\ (pc = "wait" /\ ~app.game_over) => TurnMatchesCounts(app)
    /\ last.op \in {"rejected", "warned", "reset"} => TurnMatchesCounts(app)

\* C15 witness: an occupied cell was activated with O to move, the warning
\* was dismissed and the controller is idle again.
C15_Witness ==
    /\ Idle
    /\ last.op = "warned"
    /\ app.current_player = "O"
    /\ Count(app.game_board, "X") = Count(app.game_board, "O") + 1

-----------------------------------------------------------------------------
\* C16: in every idle state the board is not terminal: no line is fully
\* populated with one mark and at least one cell is empty, so an accepted
\* move is possible and no finished position is left for the next
\* activation; the same holds whenever game_over is false and no call is
\* between the write and the evaluation.
C16_IdleBoardNotTerminal ==
    /\ Idle
        => /\ ~HasLine(app.game_board)
           /\ \E i \in Cells : app.game_board[i] = ""
           /\ check_winner(app) = "None"
    /\ (pc = "wait" /\ ~app.game_over) => ~Terminal(app.game_board)

\* C16 witness: idle with eight marks on the board, no line, one cell left.
C16_Witness ==
    /\ Idle
    /\ Count(app.game_board, "X") = 4
    /\ Count(app.game_board, "O") = 4
    /\ last.op = "continue"

-----------------------------------------------------------------------------
(* Fairness.  The code between the write and the dialog or the return runs  *)
(* to its end (the Outcome steps).  The user is assumed to activate an      *)
(* empty cell eventually and to dismiss the result dialog eventually.       *)
FairSpec ==
    /\ Spec
    /\ WF_vars(\E i \in Cells : ClickEmpty(i))
    /\ WF_vars(OutcomeWin)
    /\ WF_vars(OutcomeTie)
    /\ WF_vars(OutcomeContinue)
    /\ WF_vars(DismissInfo)

\* The accepted moves since the last reset: each one added one mark (lines
\* 102 and 107) and only reset_game removes marks.
MovesPlayed == Count(app.game_board, "X") + Count(app.game_board, "O")

\* C17: a game ends after at least 5 and at most 9 accepted moves (no
\* terminal outcome before the fifth, none pending after the ninth), and
\* under the fairness above every game reaches a win or a tie and then the
\* reset state, again and again.
C17_EveryGameTerminates ==
    /\ [](/\ MovesPlayed \in 0 .. 9
          /\ app.game_over => MovesPlayed \in 5 .. 9
          /\ (pc = "placed" /\ MovesPlayed < 5) => ~Terminal(app.game_board)
          /\ (pc = "placed" /\ MovesPlayed = 9) => Terminal(app.game_board)
          /\ (pc = "wait" /\ ~app.game_over) => MovesPlayed < 9)
    /\ []<>(app.game_over /\ InfoOpen)
    /\ (app.game_over /\ InfoOpen) ~> (IsReset(app) /\ ~InfoOpen)
    /\ ~AllEmpty(app.game_board) ~> IsReset(app)

\* C17 witness: a game is decided by its fifth accepted move, the earliest
\* possible, and the result dialog is open.
C17_Witness ==
    /\ app.game_over
    /\ InfoOpen
    /\ MovesPlayed = 5
    /\ result = "X"

-----------------------------------------------------------------------------
\* The buttons and the status line show the state of the controller.
DisplayMatches(a) ==
    /\ \A i \in Cells :
          /\ a.buttons[i].text = a.game_board[i]
          /\ a.buttons[i].state = "normal"
    /\ a.status_text = StatusLine(a.current_player)

\* C18: in every idle state the label of button i is game_board[i] (blank
\* for an empty cell), every button is enabled and the status line names
\* current_player; this holds after accepted moves, rejected moves and
\* resets (and while a warning dialog is open).
C18_DisplayMatchesState ==
    /\ Idle => DisplayMatches(app)
    /\ (pc = "wait" /\ ~app.game_over) => DisplayMatches(app)
    /\ last.op \in {"continue", "warned", "reset"} => DisplayMatches(app)

\* C18 witness: idle after an accepted move of X: its button shows "X" and
\* the status line names O.
C18_Witness ==
    /\ Idle
    /\ last.op = "continue"
    /\ app.buttons[last.index].text = "X"
    /\ app.status_text = StatusLine("O")
    /\ app.current_player = "O"

=============================================================================
